---- MODULE Spec2Model ----
(***************************************************************************)
(* Graph engine of src/src/CodigoChatGptBase.c ("Rede de Amizades"): an    *)
(* undirected graph kept as adjacency lists with a mirrored adjacency      *)
(* matrix, vertex removal with index compaction, and the two traversals.   *)
(*                                                                         *)
(* A linked list of AdjNode is modelled by the sequence of its v fields,   *)
(* head first.  A name is a string; the null pointer is NULL.              *)
(* Every C function is an operator from the Graph value (and arguments) to *)
(* the record [g |-> the Graph afterwards, ret |-> the int returned]; one  *)
(* action per function applies it to the state.                            *)
(***************************************************************************)
EXTENDS Integers, Sequences, FiniteSets, TLC

\* #define MAX_VERTICES 20 in the source; scaled down so that the full graph
\* (count = MAX_VERTICES) is reached by exhaustive exploration.
MAX_VERTICES == 4

\* The names callers pass: three names of insert_sample_graph, and one that
\* differs from "Alice" only in case (strcmp is exact).
Names == {"Alice", "Bob", "Carol", "alice"}

NULL == "NULL"

\* Positions callers pass: every valid one, one below and one past the array.
Positions == -1 .. MAX_VERTICES

\* Output-array capacities callers pass as max_out (main passes MAX_VERTICES).
MaxOuts == 0 .. MAX_VERTICES

\* The exploration stops adding edges once the graph holds MaxEdges of them.
MaxEdges == 3

Slots == 0 .. (MAX_VERTICES - 1)

VARIABLES g, pc, call, ret, out, overrun

vars == <<g, pc, call, ret, out, overrun>>

----------------------------------------------------------------------------
(* init_graph *)

EmptyVertex == [name |-> NULL, head |-> <<>>]

init_graph ==
    [n |-> 0,
     vertices |-> [i \in Slots |-> EmptyVertex],
     adjMatrix |-> [i \in Slots |-> [j \in Slots |-> 0]]]

----------------------------------------------------------------------------
(* find_vertex_index: first i in [0, n) whose name is non-null and equal *)

\* find_vertex_index with the scan started at position 1
Mut_find_vertex_index(G, name) ==
    LET RECURSIVE scan(_)
        scan(i) == IF i >= G.n THEN -1
                   ELSE IF G.vertices[i].name = name THEN i
                   ELSE scan(i + 1)
    IN  scan(1)

RECURSIVE find_from(_, _, _)
find_from(G, name, i) ==
    IF i >= G.n THEN -1
    ELSE IF G.vertices[i].name # NULL /\ G.vertices[i].name = name THEN i
    ELSE find_from(G, name, i + 1)

find_vertex_index(G, name) == find_from(G, name, 0)

----------------------------------------------------------------------------
(* add_vertex *)

\* add_vertex without the duplicate-name test
Mut_add_vertex_nodup(G, name) ==
    IF G.n >= MAX_VERTICES THEN [g |-> G, ret |-> -1]
    ELSE [g |-> [G EXCEPT !.vertices[G.n] = [name |-> name, head |-> <<>>],
                          !.n = G.n + 1],
          ret |-> 0]

\* add_vertex with the capacity test written > instead of >=
Mut_add_vertex_capacity(G, name) ==
    IF G.n > MAX_VERTICES THEN [g |-> G, ret |-> -1]
    ELSE IF find_vertex_index(G, name) # -1 THEN [g |-> G, ret |-> -2]
    ELSE [g |-> [G EXCEPT !.vertices[G.n] = [name |-> name, head |-> <<>>],
                          !.n = G.n + 1],
          ret |-> 0]

\* add_vertex storing the name in slot n before the duplicate-name test
Mut_add_vertex_early(G, name) ==
    IF G.n >= MAX_VERTICES THEN [g |-> G, ret |-> -1]
    ELSE LET G1 == [G EXCEPT !.vertices[G.n] = [name |-> name, head |-> <<>>]]
         IN  IF find_vertex_index(G, name) # -1 THEN [g |-> G1, ret |-> -2]
             ELSE [g |-> [G1 EXCEPT !.n = G.n + 1], ret |-> 0]

add_vertex(G, name) ==
    IF G.n >= MAX_VERTICES THEN [g |-> G, ret |-> -1]
    ELSE IF find_vertex_index(G, name) # -1 THEN [g |-> G, ret |-> -2]
    ELSE [g |-> [G EXCEPT !.vertices[G.n] = [name |-> name, head |-> <<>>],
                          !.n = G.n + 1],
          ret |-> 0]

----------------------------------------------------------------------------
(* add_edge_by_index, add_edge *)

\* add_edge_by_index linking v into u's list only
Mut_add_edge_oneside(G, u, v) ==
    IF u < 0 \/ u >= G.n \/ v < 0 \/ v >= G.n THEN [g |-> G, ret |-> -1]
    ELSE IF u = v THEN [g |-> G, ret |-> -1]
    ELSE IF G.adjMatrix[u][v] # 0 THEN [g |-> G, ret |-> -1]
    ELSE [g |-> [G EXCEPT !.vertices[u].head = <<v>> \o @,
                          !.adjMatrix[u][v] = 1,
                          !.adjMatrix[v][u] = 1],
          ret |-> 0]

\* add_edge_by_index without the u == v test
Mut_add_edge_selfloop(G, u, v) ==
    IF u < 0 \/ u >= G.n \/ v < 0 \/ v >= G.n THEN [g |-> G, ret |-> -1]
    ELSE IF G.adjMatrix[u][v] # 0 THEN [g |-> G, ret |-> -1]
    ELSE [g |-> [G EXCEPT !.vertices[u].head = <<v>> \o @,
                          !.vertices[v].head = <<u>> \o @,
                          !.adjMatrix[u][v] = 1,
                          !.adjMatrix[v][u] = 1],
          ret |-> 0]

\* add_edge_by_index linking the new nodes at the tails of the lists
Mut_add_edge_append(G, u, v) ==
    IF u < 0 \/ u >= G.n \/ v < 0 \/ v >= G.n THEN [g |-> G, ret |-> -1]
    ELSE IF u = v THEN [g |-> G, ret |-> -1]
    ELSE IF G.adjMatrix[u][v] # 0 THEN [g |-> G, ret |-> -1]
    ELSE [g |-> [G EXCEPT !.vertices[u].head = @ \o <<v>>,
                          !.vertices[v].head = @ \o <<u>>,
                          !.adjMatrix[u][v] = 1,
                          !.adjMatrix[v][u] = 1],
          ret |-> 0]

\* add_edge_by_index without the test for an edge that already exists
Mut_add_edge_again(G, u, v) ==
    IF u < 0 \/ u >= G.n \/ v < 0 \/ v >= G.n THEN [g |-> G, ret |-> -1]
    ELSE IF u = v THEN [g |-> G, ret |-> -1]
    ELSE [g |-> [G EXCEPT !.vertices[u].head = <<v>> \o @,
                          !.vertices[v].head = <<u>> \o @,
                          !.adjMatrix[u][v] = 1,
                          !.adjMatrix[v][u] = 1],
          ret |-> 0]

add_edge_by_index(G, u, v) ==
    IF u < 0 \/ u >= G.n \/ v < 0 \/ v >= G.n THEN [g |-> G, ret |-> -1]
    ELSE IF u = v THEN [g |-> G, ret |-> -1]
    ELSE IF G.adjMatrix[u][v] # 0 THEN [g |-> G, ret |-> -1]
    ELSE [g |-> [G EXCEPT !.vertices[u].head = <<v>> \o @,
                          !.vertices[v].head = <<u>> \o @,
                          !.adjMatrix[u][v] = 1,
                          !.adjMatrix[v][u] = 1],
          ret |-> 0]

add_edge(G, name1, name2) ==
    LET u == find_vertex_index(G, name1)
        v == find_vertex_index(G, name2)
    IN  IF u = -1 \/ v = -1 THEN [g |-> G, ret |-> -1]
        ELSE add_edge_by_index(G, u, v)

----------------------------------------------------------------------------
(* remove_occurrences_from_list: unlink every node whose v is target *)

RECURSIVE remove_occurrences_from_list(_, _)
remove_occurrences_from_list(list, target) ==
    IF list = <<>> THEN <<>>
    ELSE IF Head(list) = target
         THEN remove_occurrences_from_list(Tail(list), target)
         ELSE <<Head(list)>> \o remove_occurrences_from_list(Tail(list), target)

----------------------------------------------------------------------------
(* remove_edge_by_index, remove_edge *)

\* the unlinking with head set to curr->next whether or not prev is NULL: the
\* nodes in front of the unlinked one are lost
Mut_unlink_first(list, x) ==
    LET RECURSIVE drop(_)
        drop(l) == IF l = <<>> THEN <<>>
                   ELSE IF Head(l) = x THEN Tail(l)
                   ELSE drop(Tail(l))
    IN  drop(list)

\* the two while loops of remove_edge_by_index: unlink the first node whose v
\* is x, then break
RECURSIVE unlink_first(_, _)
unlink_first(list, x) ==
    IF list = <<>> THEN <<>>
    ELSE IF Head(list) = x THEN Tail(list)
    ELSE <<Head(list)>> \o unlink_first(Tail(list), x)

\* remove_edge_by_index leaving the matrix cells set
Mut_remove_edge_keeps_matrix(G, u, v) ==
    IF u < 0 \/ v < 0 \/ u >= G.n \/ v >= G.n THEN [g |-> G, ret |-> -1]
    ELSE IF G.adjMatrix[u][v] = 0 THEN [g |-> G, ret |-> -1]
    ELSE LET G1 == [G  EXCEPT !.vertices[u].head = unlink_first(@, v)]
         IN  [g |-> [G1 EXCEPT !.vertices[v].head = unlink_first(@, u)], ret |-> 0]

\* remove_edge_by_index clearing adjMatrix[u][v] only
Mut_remove_edge_one_cell(G, u, v) ==
    IF u < 0 \/ v < 0 \/ u >= G.n \/ v >= G.n THEN [g |-> G, ret |-> -1]
    ELSE IF G.adjMatrix[u][v] = 0 THEN [g |-> G, ret |-> -1]
    ELSE LET G1 == [G  EXCEPT !.vertices[u].head = unlink_first(@, v)]
             G2 == [G1 EXCEPT !.vertices[v].head = unlink_first(@, u)]
         IN  [g |-> [G2 EXCEPT !.adjMatrix[u][v] = 0], ret |-> 0]

remove_edge_by_index(G, u, v) ==
    IF u < 0 \/ v < 0 \/ u >= G.n \/ v >= G.n THEN [g |-> G, ret |-> -1]
    ELSE IF G.adjMatrix[u][v] = 0 THEN [g |-> G, ret |-> -1]
    ELSE LET G1 == [G  EXCEPT !.vertices[u].head = unlink_first(@, v)]
             G2 == [G1 EXCEPT !.vertices[v].head = unlink_first(@, u)]
             G3 == [G2 EXCEPT !.adjMatrix[u][v] = 0]
         IN  [g |-> [G3 EXCEPT !.adjMatrix[v][u] = 0], ret |-> 0]

remove_edge(G, name1, name2) ==
    LET u == find_vertex_index(G, name1)
        v == find_vertex_index(G, name2)
    IN  IF u = -1 \/ v = -1 THEN [g |-> G, ret |-> -1]
        ELSE remove_edge_by_index(G, u, v)

----------------------------------------------------------------------------
(* remove_vertex_by_index, one operator per numbered step of the source; *)
(* every loop runs in the source's order on the array it updates in place *)

\* step 1 left out: the other lists keep their entries for target
Mut_rv_unlink(G, target, i) == G

\* 1) for i in [0, n), i # target: remove_occurrences_from_list(vertices[i])
RECURSIVE rv_unlink(_, _, _)
rv_unlink(G, target, i) ==
    IF i >= G.n THEN G
    ELSE IF i = target THEN rv_unlink(G, target, i + 1)
    ELSE rv_unlink([G EXCEPT !.vertices[i].head =
                                 remove_occurrences_from_list(@, target)],
                   target, i + 1)

\* 2) free the target's list and name, null both
rv_free(G, target) == [G EXCEPT !.vertices[target] = EmptyVertex]

\* 3) for i in [target, n-1): vertices[i] = vertices[i+1]; then null slot n-1
RECURSIVE rv_shift_vertices(_, _)
rv_shift_vertices(G, i) ==
    IF i >= G.n - 1 THEN [G EXCEPT !.vertices[G.n - 1] = EmptyVertex]
    ELSE rv_shift_vertices([G EXCEPT !.vertices[i] = G.vertices[i + 1]], i + 1)

\* 4a) for i in [target, n-1): for j in [0, n): adjMatrix[i][j] = adjMatrix[i+1][j]
RECURSIVE rv_shift_row(_, _, _)
rv_shift_row(G, i, j) ==
    IF j >= G.n THEN G
    ELSE rv_shift_row([G EXCEPT !.adjMatrix[i][j] = G.adjMatrix[i + 1][j]],
                      i, j + 1)

RECURSIVE rv_shift_rows(_, _)
rv_shift_rows(G, i) ==
    IF i >= G.n - 1 THEN G
    ELSE rv_shift_rows(rv_shift_row(G, i, 0), i + 1)

\* 4b) for j in [target, n-1): for i in [0, n-1): adjMatrix[i][j] = adjMatrix[i][j+1]
RECURSIVE rv_shift_col(_, _, _)
rv_shift_col(G, j, i) ==
    IF i >= G.n - 1 THEN G
    ELSE rv_shift_col([G EXCEPT !.adjMatrix[i][j] = G.adjMatrix[i][j + 1]],
                      j, i + 1)

\* step 4b left out: the columns are not shifted
Mut_rv_shift_cols(G, j) == G

RECURSIVE rv_shift_cols(_, _)
rv_shift_cols(G, j) ==
    IF j >= G.n - 1 THEN G
    ELSE rv_shift_cols(rv_shift_col(G, j, 0), j + 1)

\* step 4c left out: the last row and column keep their cells
Mut_rv_clear_last(G, i) == G

\* 4c) for i in [0, n): adjMatrix[n-1][i] = 0; adjMatrix[i][n-1] = 0
RECURSIVE rv_clear_last(_, _)
rv_clear_last(G, i) ==
    IF i >= G.n THEN G
    ELSE LET G1 == [G EXCEPT !.adjMatrix[G.n - 1][i] = 0]
         IN  rv_clear_last([G1 EXCEPT !.adjMatrix[i][G.n - 1] = 0], i + 1)

\* 5) the inner while: every node with v > target gets v - 1
RECURSIVE rv_renumber_list(_, _)
rv_renumber_list(list, target) ==
    IF list = <<>> THEN <<>>
    ELSE <<IF Head(list) > target THEN Head(list) - 1 ELSE Head(list)>>
         \o rv_renumber_list(Tail(list), target)

\* step 5 left out: the list entries are not renumbered
Mut_rv_renumber(G, target, i) == G

\* 5) for i in [0, n-1): renumber vertices[i]'s list
RECURSIVE rv_renumber(_, _, _)
rv_renumber(G, target, i) ==
    IF i >= G.n - 1 THEN G
    ELSE rv_renumber([G EXCEPT !.vertices[i].head = rv_renumber_list(@, target)],
                     target, i + 1)

remove_vertex_by_index(G, target) ==
    IF target < 0 \/ target >= G.n THEN [g |-> G, ret |-> -1]
    ELSE LET G1 == rv_unlink(G, target, 0)
             G2 == rv_free(G1, target)
             G3 == rv_shift_vertices(G2, target)
             G4 == rv_clear_last(rv_shift_cols(rv_shift_rows(G3, target), target), 0)
             G5 == rv_renumber(G4, target, 0)
         IN  [g |-> [G5 EXCEPT !.n = G.n - 1], ret |-> 0]

remove_vertex(G, name) ==
    LET idx == find_vertex_index(G, name)
    IN  IF idx = -1 THEN [g |-> G, ret |-> -1]
        ELSE remove_vertex_by_index(G, idx)

----------------------------------------------------------------------------
(* Queue: queue_create, queue_empty, queue_push, queue_pop.  data is the   *)
(* malloc'ed array of cap ints; overflow records a push made at tail >= cap *)
(* (a write past the end of data).                                         *)

queue_create(cap) ==
    [data |-> [k \in 0 .. (cap - 1) |-> NULL], head |-> 0, tail |-> 0,
     cap |-> cap, overflow |-> FALSE]

queue_empty(q) == q.head = q.tail

queue_push(q, x) ==
    IF q.tail < q.cap
    THEN [q EXCEPT !.data[q.tail] = x, !.tail = q.tail + 1]
    ELSE [q EXCEPT !.tail = q.tail + 1, !.overflow = TRUE]

\* the value queue_pop returns; queue_popped is the queue after it
queue_pop(q) == q.data[q.head]

queue_popped(q) == [q EXCEPT !.head = q.head + 1]

----------------------------------------------------------------------------
(* bfs.  s = [visited, q, count, order]: order is what has been stored in  *)
(* visited_order (the store is made only while count < max_out).           *)

\* the inner while of bfs leaving the list after its first node
Mut_bfs_scan(s, list) ==
    IF list = <<>> THEN s
    ELSE LET v == Head(list)
         IN  IF s.visited[v] = 0
             THEN [s EXCEPT !.visited[v] = 1, !.q = queue_push(s.q, v)]
             ELSE s

\* the inner while of bfs walking the list from its last node to its first
Mut_bfs_scan_backwards(s, list) ==
    LET RECURSIVE scan(_, _)
        scan(t, l) ==
            IF l = <<>> THEN t
            ELSE LET v == l[Len(l)]
                 IN  scan(IF t.visited[v] = 0
                          THEN [t EXCEPT !.visited[v] = 1, !.q = queue_push(t.q, v)]
                          ELSE t,
                          SubSeq(l, 1, Len(l) - 1))
    IN  scan(s, list)

\* the inner while over u's adjacency list
RECURSIVE bfs_scan(_, _)
bfs_scan(s, list) ==
    IF list = <<>> THEN s
    ELSE LET v == Head(list)
         IN  bfs_scan(IF s.visited[v] = 0
                      THEN [s EXCEPT !.visited[v] = 1, !.q = queue_push(s.q, v)]
                      ELSE s,
                      Tail(list))

\* while (!queue_empty(q))
RECURSIVE bfs_loop(_, _, _)
bfs_loop(G, s, max_out) ==
    IF queue_empty(s.q) THEN s
    ELSE LET u  == queue_pop(s.q)
             s1 == [s EXCEPT !.q = queue_popped(s.q),
                             !.order = IF s.count < max_out THEN Append(@, u) ELSE @,
                             !.count = s.count + 1]
         IN  bfs_loop(G, bfs_scan(s1, G.vertices[u].head), max_out)

bfs(G, start, max_out) ==
    IF start < 0 \/ start >= G.n
    THEN [ret |-> 0, order |-> <<>>, written |-> 0, q |-> queue_create(0)]
    ELSE LET visited == [i \in 0 .. (G.n - 1) |-> IF i = start THEN 1 ELSE 0]
             q0 == queue_push(queue_create(G.n + 5), start)
             s  == bfs_loop(G, [visited |-> visited, q |-> q0, count |-> 0,
                                order |-> <<>>], max_out)
         IN  [ret |-> s.count, order |-> s.order, written |-> Len(s.order), q |-> s.q]

----------------------------------------------------------------------------
(* dfs_util, dfs.  s = [visited, order, pos]: order is every store into   *)
(* order[pos], pos then incremented, made so far; dfs never reads max_out  *)

RECURSIVE dfs_util(_, _, _)
RECURSIVE dfs_scan(_, _, _)

\* the while of dfs_util leaving the list after its first node
Mut_dfs_scan(G, s, list) ==
    IF list = <<>> THEN s
    ELSE IF s.visited[Head(list)] = 0 THEN dfs_util(G, Head(list), s) ELSE s

dfs_util(G, u, s) ==
    dfs_scan(G, [s EXCEPT !.visited[u] = 1,
                          !.order = Append(@, u),
                          !.pos = s.pos + 1],
             G.vertices[u].head)

\* the while over u's adjacency list, recursing into each unvisited entry
dfs_scan(G, s, list) ==
    IF list = <<>> THEN s
    ELSE dfs_scan(G,
                  IF s.visited[Head(list)] = 0 THEN dfs_util(G, Head(list), s) ELSE s,
                  Tail(list))

dfs(G, start, max_out) ==
    IF start < 0 \/ start >= G.n
    THEN [ret |-> 0, order |-> <<>>, written |-> 0]
    ELSE LET visited == [i \in 0 .. (G.n - 1) |-> 0]
             s == dfs_util(G, start, [visited |-> visited, order |-> <<>>, pos |-> 0])
         IN  [ret |-> s.pos, order |-> s.order, written |-> Len(s.order)]

----------------------------------------------------------------------------
(* display_incidence_matrix.  What it prints is returned as a record: m,   *)
(* the edges[] array filled so far, and the n x m grid, rows[i][e] being   *)
(* the digit printed for vertex i under edge column e.                     *)

\* the collection loops with v started at 0 instead of u + 1
Mut_im_collect(G, u, v, edges) ==
    LET RECURSIVE scan(_, _, _)
        scan(a, b, es) ==
            IF a >= G.n THEN es
            ELSE IF b >= G.n THEN scan(a + 1, 0, es)
            ELSE scan(a, b + 1,
                      IF G.adjMatrix[a][b] # 0 THEN Append(es, <<a, b>>) ELSE es)
    IN  scan(0, 0, <<>>)

\* for u in [0, n): for v in [u+1, n): if adjMatrix[u][v], edges[m++] = (u, v)
RECURSIVE im_collect(_, _, _, _)
im_collect(G, u, v, edges) ==
    IF u >= G.n THEN edges
    ELSE IF v >= G.n THEN im_collect(G, u + 1, u + 2, edges)
    ELSE im_collect(G, u, v + 1,
                    IF G.adjMatrix[u][v] # 0 THEN Append(edges, <<u, v>>) ELSE edges)

display_incidence_matrix(G) ==
    LET edges == im_collect(G, 0, 1, <<>>)
        m == Len(edges)
    IN  [m |-> m,
         edges |-> edges,
         rows |-> [i \in 0 .. (G.n - 1) |->
                      [e \in 0 .. (m - 1) |->
                          IF i = edges[e + 1][1] \/ i = edges[e + 1][2] THEN 1 ELSE 0]]]

----------------------------------------------------------------------------
(* The state machine.  main loops: at "menu" it makes one call on its      *)
(* Graph g; at "result" it holds the call made (call), the int returned    *)
(* (ret) and, after a traversal, its array order[] (out), reports them and *)
(* goes back to the menu.  overrun counts the stores a traversal made past *)
(* the max_out entries of the caller's array; such a run may also crash.   *)

NoCall == [op |-> "none", a |-> NULL, b |-> NULL]

\* number of undirected edges held by the adjacency lists
Sum(f, S) == LET RECURSIVE sum(_)
                 sum(T) == IF T = {} THEN 0
                           ELSE LET x == CHOOSE y \in T : TRUE
                                IN  f[x] + sum(T \ {x})
             IN  sum(S)

EdgeCount(G) == Sum([i \in Slots |-> Len(G.vertices[i].head)], Slots) \div 2

Init ==
    /\ g = init_graph
    /\ pc = "menu"
    /\ call = NoCall
    /\ ret = 0
    /\ out = <<>>
    /\ overrun = 0

\* a mutation returns: r = [g, ret]
Apply(r, c) ==
    /\ g' = r.g
    /\ ret' = r.ret
    /\ call' = c
    /\ pc' = "result"
    /\ UNCHANGED <<out, overrun>>

AddVertex ==
    /\ pc = "menu"
    /\ \E name \in Names :
           Apply(add_vertex(g, name), [op |-> "add_vertex", a |-> name, b |-> NULL])

AddEdgeByIndex ==
    /\ pc = "menu"
    /\ \E u \in Positions, v \in Positions :
           LET r == add_edge_by_index(g, u, v)
           IN  /\ r.ret = 0 => EdgeCount(g) < MaxEdges
               /\ Apply(r, [op |-> "add_edge_by_index", a |-> u, b |-> v])

AddEdge ==
    /\ pc = "menu"
    /\ \E name1 \in Names, name2 \in Names :
           LET r == add_edge(g, name1, name2)
           IN  /\ r.ret = 0 => EdgeCount(g) < MaxEdges
               /\ Apply(r, [op |-> "add_edge", a |-> name1, b |-> name2])

RemoveEdgeByIndex ==
    /\ pc = "menu"
    /\ \E u \in Positions, v \in Positions :
           Apply(remove_edge_by_index(g, u, v),
                 [op |-> "remove_edge_by_index", a |-> u, b |-> v])

RemoveEdge ==
    /\ pc = "menu"
    /\ \E name1 \in Names, name2 \in Names :
           Apply(remove_edge(g, name1, name2),
                 [op |-> "remove_edge", a |-> name1, b |-> name2])

RemoveVertexByIndex ==
    /\ pc = "menu"
    /\ \E target \in Positions :
           Apply(remove_vertex_by_index(g, target),
                 [op |-> "remove_vertex_by_index", a |-> target, b |-> NULL])

RemoveVertex ==
    /\ pc = "menu"
    /\ \E name \in Names :
           Apply(remove_vertex(g, name),
                 [op |-> "remove_vertex", a |-> name, b |-> NULL])

\* a traversal returns: r = [ret, order, written]; the caller's array holds
\* max_out entries, so stores at index >= max_out land past its end
Traverse(r, c, max_out) ==
    /\ call' = c
    /\ ret' = r.ret
    /\ out' = SubSeq(r.order, 1, IF r.written < max_out THEN r.written ELSE max_out)
    /\ overrun' = IF r.written > max_out THEN r.written - max_out ELSE 0
    /\ pc' \in (IF r.written > max_out THEN {"result", "crashed"} ELSE {"result"})
    /\ UNCHANGED g

Bfs ==
    /\ pc = "menu"
    /\ \E start \in Positions, max_out \in MaxOuts :
           Traverse(bfs(g, start, max_out),
                    [op |-> "bfs", a |-> start, b |-> max_out], max_out)

Dfs ==
    /\ pc = "menu"
    /\ \E start \in Positions, max_out \in MaxOuts :
           Traverse(dfs(g, start, max_out),
                    [op |-> "dfs", a |-> start, b |-> max_out], max_out)

\* option 5 of main: the views are printed; out holds what
\* display_incidence_matrix prints
Display ==
    /\ pc = "menu"
    /\ call' = [op |-> "display_incidence_matrix", a |-> NULL, b |-> NULL]
    /\ ret' = 0
    /\ out' = display_incidence_matrix(g)
    /\ pc' = "result"
    /\ UNCHANGED <<g, overrun>>

\* main prints the outcome and loops; r and order[] are block-local
Report ==
    /\ pc = "result"
    /\ pc' = "menu"
    /\ call' = NoCall
    /\ ret' = 0
    /\ out' = <<>>
    /\ overrun' = 0
    /\ UNCHANGED g

Next ==
    \/ AddVertex
    \/ AddEdgeByIndex
    \/ AddEdge
    \/ RemoveEdgeByIndex
    \/ RemoveEdge
    \/ RemoveVertexByIndex
    \/ RemoveVertex
    \/ Bfs
    \/ Dfs
    \/ Display
    \/ Report

Spec == Init /\ [][Next]_vars

----------------------------------------------------------------------------
(* Vocabulary of the properties *)

Valid(G) == 0 .. (G.n - 1)

\* v occurs in u's adjacency list
InList(G, u, v) ==
    \E k \in 1 .. Len(G.vertices[u].head) : G.vertices[u].head[k] = v

\* the undirected edges according to the lists, and according to the matrix
ListEdges(G) == {e \in SUBSET Valid(G) : \E u \in e, v \in e : e = {u, v} /\ InList(G, u, v)}

MatrixEdges(G) ==
    {e \in SUBSET Valid(G) : \E u \in e, v \in e : e = {u, v} /\ G.adjMatrix[u][v] = 1}

\* the vertices joined to start by a path of list edges, start included
RECURSIVE ReachFrom(_, _)
ReachFrom(G, S) ==
    LET T == S \cup {v \in Valid(G) : \E u \in S : InList(G, u, v)}
    IN  IF T = S THEN S ELSE ReachFrom(G, T)

Reachable(G, start) == ReachFrom(G, {start})

NoRepeats(seq) == \A i, j \in 1 .. Len(seq) : i # j => seq[i] # seq[j]

Range(seq) == {seq[i] : i \in 1 .. Len(seq)}

\* the step in which main makes a call of op, and the state that holds its outcome
Calls(op) == pc = "menu" /\ pc' = "result" /\ call'.op = op

Returned(op) == pc = "result" /\ call.op = op

----------------------------------------------------------------------------
\* C1: in every reachable state, for all positions u, v in [0, count), v is in
\* u's adjacency list if and only if u is in v's adjacency list.
C1_Symmetry ==
    \A u \in Valid(g), v \in Valid(g) : InList(g, u, v) <=> InList(g, v, u)

\* a vertex removal has compacted the graph and an edge survives it, renumbered
C1_Witness ==
    /\ Returned("remove_vertex_by_index") /\ ret = 0 /\ call.a = 0
    /\ \E u \in Valid(g), v \in Valid(g) : InList(g, u, v)

\* C2: in every reachable state, for all positions i, j in [0, count),
\* adjMatrix[i][j] is 1 if and only if j occurs in vertex i's adjacency list;
\* this covers the states right after remove_vertex_by_index has shifted the
\* matrix and renumbered the lists.
C2_MatrixMirrorsLists ==
    \A i \in Valid(g), j \in Valid(g) :
        /\ g.adjMatrix[i][j] \in {0, 1}
        /\ g.adjMatrix[i][j] = 1 <=> InList(g, i, j)

\* a removal below the last position has shifted a row and a column that hold an edge
C2_Witness ==
    /\ Returned("remove_vertex_by_index") /\ ret = 0 /\ call.a = 0 /\ g.n = 3
    /\ g.adjMatrix[1][2] = 1 /\ InList(g, 1, 2)

----------------------------------------------------------------------------
\* position of a survivor of the removal of target
NewPos(p, target) == IF p < target THEN p ELSE p - 1

\* the position removed by the call c made on G
RemovedPos(G, c) ==
    IF c.op = "remove_vertex_by_index" THEN c.a ELSE find_vertex_index(G, c.a)

\* vertices [a, b, c, d] with edges a-c and b-d and no other
IsExampleBefore(G, a, b, c, d) ==
    /\ G.n = 4
    /\ G.vertices[0].name = a /\ G.vertices[1].name = b
    /\ G.vertices[2].name = c /\ G.vertices[3].name = d
    /\ ListEdges(G) = {{0, 2}, {1, 3}}

\* vertices [a, c, d] at positions [0, 1, 2] with the edge set {{0, 1}}
IsExampleAfter(G, a, c, d) ==
    /\ G.n = 3
    /\ G.vertices[0].name = a /\ G.vertices[1].name = c /\ G.vertices[2].name = d
    /\ ListEdges(G) = {{0, 1}} /\ MatrixEdges(G) = {{0, 1}}
    /\ G.vertices[2].head = <<>>

\* C3: a successful remove_vertex_by_index(target) (also when reached through
\* remove_vertex) on a graph of count n yields count n-1; the survivor formerly
\* at p is at p when p < target and at p-1 when p > target; two survivors,
\* taken by position or by name, are adjacent afterwards iff they were before;
\* no list entry is left for an edge of the removed vertex.  [A,B,C,D] with
\* edges A-C and B-D, B removed, gives [A,C,D] with edge set exactly {0,1}.
C3_Compaction ==
    [][ (Calls("remove_vertex_by_index") \/ Calls("remove_vertex")) /\ ret' = 0 =>
        LET target == RemovedPos(g, call')
            S == Valid(g) \ {target}
        IN  /\ target \in Valid(g)
            /\ g'.n = g.n - 1
            /\ \A p \in S : g'.vertices[NewPos(p, target)].name = g.vertices[p].name
            /\ \A p \in S, q \in S :
                   /\ InList(g', NewPos(p, target), NewPos(q, target)) <=> InList(g, p, q)
                   /\ g'.adjMatrix[NewPos(p, target)][NewPos(q, target)] = g.adjMatrix[p][q]
            /\ \A a \in Names, b \in Names :
                   find_vertex_index(g', a) # -1 /\ find_vertex_index(g', b) # -1 =>
                       /\ find_vertex_index(g, a) # -1 /\ find_vertex_index(g, b) # -1
                       /\ InList(g', find_vertex_index(g', a), find_vertex_index(g', b))
                          <=> InList(g, find_vertex_index(g, a), find_vertex_index(g, b))
            /\ \A p \in Valid(g') : Range(g'.vertices[p].head) \subseteq Valid(g')
            /\ EdgeCount(g') = EdgeCount(g) - Len(g.vertices[target].head)
            /\ \A a \in Names, b \in Names, c \in Names, d \in Names :
                   IsExampleBefore(g, a, b, c, d) /\ target = 1 =>
                       IsExampleAfter(g', a, c, d)
      ]_vars

\* the outcome of the example: B = "Bob" removed from [Alice, Bob, Carol, alice]
C3_Witness ==
    /\ Returned("remove_vertex") /\ ret = 0 /\ call.a = "Bob"
    /\ IsExampleAfter(g, "Alice", "Carol", "alice")

\* C4: for every reachable graph and valid start, bfs returns (terminates),
\* and with an output array that has room for the vertices it visits, the
\* positions it records hold no position twice and are exactly the vertices
\* reachable from start, cycles or not; for every max_out the count returned
\* is the number of reachable vertices, which is at most count.
C4_BfsVisitsReachable ==
    Returned("bfs") /\ call.a \in Valid(g) =>
        /\ ret = Cardinality(Reachable(g, call.a))
        /\ ret <= g.n
        /\ Len(out) = (IF ret < call.b THEN ret ELSE call.b)
        /\ NoRepeats(out)
        /\ Range(out) \subseteq Reachable(g, call.a)
        /\ call.b >= ret => Range(out) = Reachable(g, call.a)

\* bfs from a vertex of a triangle, with a fourth vertex out of reach
C4_Witness ==
    /\ Returned("bfs") /\ call.a = 0 /\ call.b = MAX_VERTICES
    /\ g.n = 4 /\ ListEdges(g) = {{0, 1}, {1, 2}, {0, 2}}
    /\ ret = 3 /\ Range(out) = {0, 1, 2}

\* C5: for every reachable graph and valid start, dfs called with an output
\* array that has room for the vertices reachable from start returns
\* (terminates); the positions it records start with start, hold no position
\* twice and are exactly the reachable vertices, cycles or not; the count
\* returned is their number.
C5_DfsVisitsReachable ==
    /\ Returned("dfs") /\ call.a \in Valid(g)
    /\ call.b >= Cardinality(Reachable(g, call.a))
    => /\ ret = Cardinality(Reachable(g, call.a))
       /\ ret <= g.n
       /\ overrun = 0
       /\ Len(out) = ret
       /\ out[1] = call.a
       /\ NoRepeats(out)
       /\ Range(out) = Reachable(g, call.a)

\* dfs from a vertex of a triangle, with a fourth vertex out of reach
C5_Witness ==
    /\ Returned("dfs") /\ call.a = 0 /\ call.b = MAX_VERTICES
    /\ g.n = 4 /\ ListEdges(g) = {{0, 1}, {1, 2}, {0, 2}}
    /\ ret = 3 /\ Range(out) = {0, 1, 2}

----------------------------------------------------------------------------
\* C6 as stated: add_vertex with a name already in the graph returns -2
\* (DuplicateName) whatever the count, and leaves the graph unchanged.
C6_DuplicateAlwaysMinus2 ==
    [][ Calls("add_vertex") /\ find_vertex_index(g, call'.a) # -1 =>
        ret' = -2 /\ g' = g ]_vars

\* C6 amended: add_vertex with a name already in the graph fails and leaves
\* the graph unchanged; it returns -2 (DuplicateName) when count <
\* MAX_VERTICES and -1 (CapacityExceeded) when count = MAX_VERTICES.
C6_DuplicateRejected ==
    [][ Calls("add_vertex") /\ find_vertex_index(g, call'.a) # -1 =>
        /\ g' = g
        /\ ret' = (IF g.n < MAX_VERTICES THEN -2 ELSE -1) ]_vars

\* a duplicate name has been refused with -2
C6_Witness ==
    /\ Returned("add_vertex") /\ ret = -2
    /\ find_vertex_index(g, call.a) # -1 /\ g.n < MAX_VERTICES

\* C7: in every reachable state the names at positions [0, count) are set
\* and pairwise distinct under exact, case-sensitive comparison.
C7_NamesDistinct ==
    \A i \in Valid(g), j \in Valid(g) :
        /\ g.vertices[i].name \in Names
        /\ i # j => g.vertices[i].name # g.vertices[j].name

\* "alice" has been added to a graph that holds "Alice"
C7_Witness ==
    /\ Returned("add_vertex") /\ ret = 0 /\ call.a = "alice"
    /\ find_vertex_index(g, "Alice") = 0
    /\ g.vertices[1].name = "Bob" /\ g.n = 3

\* C8: whenever a call can be made (every reachable graph, at the menu), for
\* every valid position x, add_edge_by_index(x, x) returns -1 and leaves lists and matrix unchanged,
\* and add_edge with the same name given twice returns -1 and changes nothing.
C8_NoSelfLoop ==
    /\ pc = "menu" =>
           /\ \A x \in Valid(g) : add_edge_by_index(g, x, x) = [g |-> g, ret |-> -1]
           /\ \A name \in Names : add_edge(g, name, name) = [g |-> g, ret |-> -1]
    /\ Returned("add_edge_by_index") /\ call.a = call.b => ret = -1
    /\ Returned("add_edge") /\ call.a = call.b => ret = -1

\* a self-loop on a vertex that has a neighbour has been refused
C8_Witness ==
    /\ Returned("add_edge_by_index") /\ call.a = call.b /\ call.a \in Valid(g)
    /\ ret = -1 /\ g.vertices[call.a].head # <<>>

\* C9: whenever a call can be made (every reachable graph, at the menu), for
\* distinct valid positions u, v that are not adjacent: add_edge_by_index(u,v) returns 0 and makes them adjacent; a
\* second add_edge_by_index(u,v) or (v,u) returns -1 and changes nothing;
\* remove_edge_by_index(u,v) then returns 0, after which
\* add_edge_by_index(u,v) returns 0 again.
C9_EdgeAddRemoveAdd ==
    \A u \in Valid(g), v \in Valid(g) :
        pc = "menu" /\ u # v /\ ~InList(g, u, v) /\ g.adjMatrix[u][v] = 0 =>
            LET r1 == add_edge_by_index(g, u, v)
                r2 == add_edge_by_index(r1.g, u, v)
                r3 == add_edge_by_index(r1.g, v, u)
                r4 == remove_edge_by_index(r1.g, u, v)
                r5 == add_edge_by_index(r4.g, u, v)
            IN  /\ r1.ret = 0 /\ InList(r1.g, u, v) /\ InList(r1.g, v, u)
                /\ r2 = [g |-> r1.g, ret |-> -1]
                /\ r3 = [g |-> r1.g, ret |-> -1]
                /\ r4.ret = 0 /\ ~InList(r4.g, u, v) /\ ~InList(r4.g, v, u)
                /\ r5.ret = 0 /\ InList(r5.g, u, v) /\ InList(r5.g, v, u)

\* an edge that exists has been refused when added again, the other way round
C9_Witness ==
    /\ Returned("add_edge_by_index") /\ ret = -1
    /\ call.a \in Valid(g) /\ call.b \in Valid(g) /\ call.a > call.b
    /\ g.adjMatrix[call.a][call.b] = 1 /\ InList(g, call.b, call.a)

\* C10: every call of add_vertex, add_edge_by_index, add_edge,
\* remove_edge_by_index, remove_edge, remove_vertex_by_index or remove_vertex
\* that returns a negative code leaves count, names, lists and matrix as
\* they were before the call.
C10_FailureChangesNothing ==
    [][ pc = "menu" /\ pc' = "result" /\ ret' < 0 => g' = g ]_vars

\* a removal of an edge that does not exist has failed on a graph with edges
C10_Witness ==
    /\ Returned("remove_edge_by_index") /\ ret = -1
    /\ call.a \in Valid(g) /\ call.b \in Valid(g) /\ call.a # call.b
    /\ g.vertices[call.a].head # <<>> /\ g.vertices[call.b].head # <<>>

----------------------------------------------------------------------------
\* C11: in every reachable state every entry v of the adjacency list of a
\* vertex at a position in [0, count) satisfies 0 <= v < count; no removal
\* leaves an entry that points at or past the new count.
C11_EntriesInRange ==
    \A u \in Valid(g) : Range(g.vertices[u].head) \subseteq Valid(g)

\* the last vertex but one has been removed and the survivor that was last,
\* now at count - 1, still has its edge, renumbered
C11_Witness ==
    /\ Returned("remove_vertex_by_index") /\ ret = 0 /\ g.n = 3 /\ call.a = 2
    /\ InList(g, 0, 2) /\ InList(g, 2, 0)

\* number of rows of column e of the incidence grid that hold a 1
OnesInColumn(G, d, e) == Cardinality({i \in Valid(G) : d.rows[i][e] = 1})

\* C12: for every reachable graph, display_incidence_matrix collects the
\* pairs u < v with adjMatrix[u][v] set in ascending u then ascending v;
\* the number m of columns is the number of undirected edges of the
\* adjacency lists, and every column has exactly two rows in [0, count)
\* marked 1, the two distinct endpoints of its edge.
C12_IncidenceColumns ==
    Returned("display_incidence_matrix") =>
        /\ out.m = Cardinality(ListEdges(g))
        /\ out.m = EdgeCount(g)
        /\ \A e \in 0 .. (out.m - 1) :
               LET a == out.edges[e + 1][1]
                   b == out.edges[e + 1][2]
               IN  /\ a \in Valid(g) /\ b \in Valid(g) /\ a < b
                   /\ InList(g, a, b) /\ InList(g, b, a)
                   /\ OnesInColumn(g, out, e) = 2
                   /\ out.rows[a][e] = 1 /\ out.rows[b][e] = 1
        /\ \A e \in 0 .. (out.m - 1), f \in 0 .. (out.m - 1) :
               e < f => \/ out.edges[e + 1][1] < out.edges[f + 1][1]
                        \/ /\ out.edges[e + 1][1] = out.edges[f + 1][1]
                           /\ out.edges[e + 1][2] < out.edges[f + 1][2]

\* the incidence grid of a graph with three edges on four vertices
C12_Witness ==
    /\ Returned("display_incidence_matrix") /\ g.n = 4 /\ out.m = 3
    /\ out.edges = <<<<0, 1>>, <<0, 3>>, <<2, 3>>>>

----------------------------------------------------------------------------
\* the calls of the end-to-end scenario, made one after the other on the
\* empty graph
Sc1 == add_vertex(init_graph, "Alice")

Sc2 == add_vertex(Sc1.g, "Bob")

Sc3 == add_vertex(Sc2.g, "Carol")

Sc4 == add_edge(Sc3.g, "Alice", "Bob")

Sc5 == add_edge(Sc4.g, "Alice", "Carol")

\* no edge among the positions of G, in the lists or in the matrix
NoEdges(G) ==
    \A u \in Valid(G) :
        /\ G.vertices[u].head = <<>>
        /\ \A v \in Valid(G) : G.adjMatrix[u][v] = 0

\* C13: from the empty graph, adding "Alice", "Bob", "Carol" succeeds and
\* places them at positions 0, 1, 2; adding the edges Alice-Bob then
\* Alice-Carol succeeds; in the graph so built bfs from Alice (any output
\* array with room for three) records [0,2,1] and returns 3, and
\* remove_vertex("Alice") leaves ["Bob","Carol"] at positions [0,1] with no
\* edge in the lists or the matrix.
C13_EndToEnd ==
    [][ g = Sc5.g =>
        /\ Sc1.ret = 0 /\ Sc2.ret = 0 /\ Sc3.ret = 0 /\ Sc4.ret = 0 /\ Sc5.ret = 0
        /\ find_vertex_index(Sc1.g, "Alice") = 0
        /\ find_vertex_index(Sc2.g, "Bob") = 1
        /\ find_vertex_index(Sc3.g, "Carol") = 2
        /\ g.n = 3
        /\ find_vertex_index(g, "Alice") = 0
        /\ find_vertex_index(g, "Bob") = 1
        /\ find_vertex_index(g, "Carol") = 2
        /\ Calls("bfs") /\ call'.a = find_vertex_index(g, "Alice") /\ call'.b >= 3 =>
               ret' = 3 /\ out' = <<0, 2, 1>>
        /\ Calls("remove_vertex") /\ call'.a = "Alice" =>
               /\ ret' = 0 /\ g'.n = 2
               /\ g'.vertices[0].name = "Bob" /\ g'.vertices[1].name = "Carol"
               /\ NoEdges(g')
      ]_vars

\* bfs from Alice has returned on the graph of the scenario
C13_Witness ==
    /\ Returned("bfs") /\ g = Sc5.g /\ call.a = 0 /\ call.b = MAX_VERTICES
    /\ out = <<0, 2, 1>> /\ ret = 3

----------------------------------------------------------------------------
\* a name no vertex of a reachable graph carries
NewName == "Dave"

\* C14: in every reachable state 0 <= count <= MAX_VERTICES; whenever
\* count >= MAX_VERTICES add_vertex returns -1 for every name, carried by a
\* vertex or not, and changes nothing; and after a vertex is removed from a
\* full graph, add_vertex of a name the graph does not carry returns 0 and
\* count is MAX_VERTICES again.
C14_Capacity ==
    /\ g.n \in 0 .. MAX_VERTICES
    /\ pc = "menu" /\ g.n >= MAX_VERTICES =>
           /\ \A name \in Names \cup {NewName} :
                  add_vertex(g, name) = [g |-> g, ret |-> -1]
           /\ \A target \in Valid(g) :
                  LET r == remove_vertex_by_index(g, target)
                  IN  /\ r.ret = 0
                      /\ \A name \in Names \cup {NewName} :
                             find_vertex_index(r.g, name) = -1 =>
                                 /\ add_vertex(r.g, name).ret = 0
                                 /\ add_vertex(r.g, name).g.n = MAX_VERTICES

\* add_vertex has been refused on a full graph
C14_Witness ==
    /\ Returned("add_vertex") /\ ret = -1 /\ g.n = MAX_VERTICES

----------------------------------------------------------------------------
\* every matrix cell with a row or column index >= count is zero
UnusedCellsZero(G) ==
    \A i \in Slots, j \in Slots : (i >= G.n \/ j >= G.n) => G.adjMatrix[i][j] = 0

\* the vertices and cells of G at positions [0, G.n) are the same in H
SameUpToCount(G, H) ==
    \A u \in Valid(G) :
        /\ H.vertices[u] = G.vertices[u]
        /\ \A v \in Valid(G) : H.adjMatrix[u][v] = G.adjMatrix[u][v]

\* C15: a successful add_vertex, in any reachable state, puts the new vertex
\* at the position equal to the old count, with an empty adjacency list and
\* an all-zero matrix row and column, and leaves the name, position,
\* adjacency list and matrix cells of every existing vertex unchanged; and
\* in every reachable state all matrix cells with a row or a column index
\* >= count are zero.
C15_AddVertexAppends ==
    /\ [](UnusedCellsZero(g))
    /\ [][ Calls("add_vertex") /\ ret' = 0 =>
           /\ g'.n = g.n + 1
           /\ g'.vertices[g.n] = [name |-> call'.a, head |-> <<>>]
           /\ find_vertex_index(g', call'.a) = g.n
           /\ \A i \in Valid(g') :
                  g'.adjMatrix[g.n][i] = 0 /\ g'.adjMatrix[i][g.n] = 0
           /\ SameUpToCount(g, g')
         ]_vars

\* a vertex has been added at position 2 of a graph that has an edge
C15_Witness ==
    /\ Returned("add_vertex") /\ ret = 0 /\ g.n = 3
    /\ g.vertices[0].name = "Carol" /\ g.vertices[2].name = "Alice"
    /\ InList(g, 0, 1) /\ g.vertices[2].head = <<>>

----------------------------------------------------------------------------
\* C16: in every reachable state no adjacency list holds the same position
\* twice, no vertex's adjacency list holds the vertex's own position, and
\* the matrix diagonal is all zero.
C16_SimpleGraph ==
    \A u \in Valid(g) :
        /\ NoRepeats(g.vertices[u].head)
        /\ ~InList(g, u, u)
        /\ g.adjMatrix[u][u] = 0

\* a vertex removal has renumbered a list of two entries
C16_Witness ==
    /\ Returned("remove_vertex_by_index") /\ ret = 0 /\ call.a = 1 /\ g.n = 3
    /\ g.vertices[2].head = <<1, 0>>

----------------------------------------------------------------------------
\* list with every entry equal to x taken out, the others in their order
Without(list, x) == SelectSeq(list, LAMBDA e : e # x)

\* the positions u, v the call c made on G hands to remove_edge_by_index
EdgeEnds(G, c) ==
    IF c.op = "remove_edge_by_index" THEN <<c.a, c.b>>
    ELSE <<find_vertex_index(G, c.a), find_vertex_index(G, c.b)>>

\* C17: a successful remove_edge_by_index(u, v), called directly or through
\* remove_edge, takes exactly the entry v out of u's adjacency list and the
\* entry u out of v's list and clears adjMatrix[u][v] and adjMatrix[v][u];
\* count, every vertex name, every other adjacency entry, in its relative
\* order inside its list, and every other matrix cell are unchanged.
C17_RemoveEdgeFrame ==
    [][ (Calls("remove_edge_by_index") \/ Calls("remove_edge")) /\ ret' = 0 =>
        LET u == EdgeEnds(g, call')[1]
            v == EdgeEnds(g, call')[2]
        IN  /\ u \in Valid(g) /\ v \in Valid(g) /\ u # v
            /\ InList(g, u, v) /\ InList(g, v, u)
            /\ Len(g'.vertices[u].head) = Len(g.vertices[u].head) - 1
            /\ Len(g'.vertices[v].head) = Len(g.vertices[v].head) - 1
            /\ g' = [g EXCEPT !.vertices[u].head = Without(@, v),
                              !.vertices[v].head = Without(@, u),
                              !.adjMatrix[u][v] = 0,
                              !.adjMatrix[v][u] = 0]
      ]_vars

\* an edge has been removed at a vertex that had three; its two other
\* entries are kept in their order
C17_Witness ==
    /\ Returned("remove_edge_by_index") /\ ret = 0 /\ call.a = 0 /\ call.b = 1
    /\ g.vertices[0].head = <<3, 2>> /\ g.vertices[1].head = <<>>

----------------------------------------------------------------------------
\* the positions within k edges of start
RECURSIVE Within(_, _, _)
Within(G, start, k) ==
    IF k = 0 THEN {start}
    ELSE LET S == Within(G, start, k - 1)
         IN  S \cup {v \in Valid(G) : \E u \in S : InList(G, u, v)}

\* the shortest-path distance from start to the reachable position t
Dist(G, start, t) ==
    CHOOSE k \in 0 .. G.n :
        /\ t \in Within(G, start, k)
        /\ k > 0 => t \notin Within(G, start, k - 1)

\* the index of the first entry of seq equal to x
IndexOf(seq, x) ==
    CHOOSE i \in 1 .. Len(seq) : seq[i] = x /\ \A j \in 1 .. (i - 1) : seq[j] # x

\* the positions pushed on the queue q, in the order of the pushes
Enqueued(q) == [k \in 1 .. q.tail |-> q.data[k - 1]]

\* the vertex during whose scan x was pushed: the first one dequeued that has
\* x in its adjacency list
Discoverer(G, enq, x) ==
    enq[CHOOSE k \in 1 .. Len(enq) :
            /\ InList(G, enq[k], x)
            /\ \A j \in 1 .. (k - 1) : ~InList(G, enq[j], x)]

\* C18: bfs records the vertices in level order: the first recorded position
\* is start; whenever a is recorded before b, the shortest-path distance
\* from start to a is at most that from start to b; the vertices are
\* recorded in the order they were enqueued, and the unvisited neighbours of
\* one dequeued vertex are enqueued in the order of that vertex's adjacency
\* list (the most recently added edge first).
C18_BfsLevelOrder ==
    Returned("bfs") /\ call.a \in Valid(g) =>
        LET start == call.a
            enq   == Enqueued(bfs(g, call.a, call.b).q)
        IN  /\ Len(out) = (IF ret < call.b THEN ret ELSE call.b)
            /\ Len(out) >= 1 => out[1] = start
            /\ \A i, j \in 1 .. Len(out) :
                   i < j => Dist(g, start, out[i]) <= Dist(g, start, out[j])
            /\ out = SubSeq(enq, 1, Len(out))
            /\ \A i, j \in 2 .. Len(enq) :
                   LET p == Discoverer(g, enq, enq[i])
                   IN  (i < j /\ p = Discoverer(g, enq, enq[j])) =>
                           IndexOf(g.vertices[p].head, enq[i])
                               < IndexOf(g.vertices[p].head, enq[j])

\* bfs has recorded two levels: 2 and 1, neighbours of the start 0 in the
\* order of its list, then 3 at distance two
C18_Witness ==
    /\ Returned("bfs") /\ call.a = 0 /\ ret = 4
    /\ g.vertices[0].head = <<2, 1>> /\ InList(g, 1, 3) /\ ~InList(g, 0, 3)
    /\ out = <<0, 2, 1, 3>>

----------------------------------------------------------------------------
\* add_edge_by_index(u, v) on G followed immediately by
\* remove_edge_by_index(u, v)
AddThenRemove(G, u, v) == remove_edge_by_index(add_edge_by_index(G, u, v).g, u, v)

\* C19: whenever a call can be made (every reachable graph, at the menu),
\* for distinct valid positions u, v that are not adjacent,
\* add_edge_by_index(u, v) succeeds and changes the graph, and
\* remove_edge_by_index(u, v) called next succeeds and gives back the graph
\* as it was: count, names, every adjacency list entry by entry and every
\* matrix cell.
C19_RoundTrip ==
    pc = "menu" =>
        \A u \in Valid(g), v \in Valid(g) :
            (u # v /\ ~InList(g, u, v) /\ g.adjMatrix[u][v] = 0) =>
                /\ add_edge_by_index(g, u, v).ret = 0
                /\ add_edge_by_index(g, u, v).g # g
                /\ AddThenRemove(g, u, v) = [g |-> g, ret |-> 0]

\* the edge 0-1 has been removed from a graph whose vertices 0 and 1 keep
\* another entry each; adding it and removing it again gives this graph back
C19_Witness ==
    /\ Returned("remove_edge_by_index") /\ ret = 0 /\ call.a = 0 /\ call.b = 1
    /\ g.vertices[0].head = <<2>> /\ g.vertices[1].head = <<2>>
    /\ AddThenRemove(g, 0, 1) = [g |-> g, ret |-> 0]

----------------------------------------------------------------------------
\* the queue of the bfs call just made stayed inside its array: no push at
\* tail >= cap, no position pushed twice, tail <= cap = count + 5 and
\* head <= tail when the loop ends
BfsQueueSafe ==
    Returned("bfs") /\ call.a \in Valid(g) =>
        LET q == bfs(g, call.a, call.b).q
        IN  /\ q.cap = g.n + 5
            /\ ~q.overflow
            /\ q.tail <= q.cap
            /\ q.head <= q.tail
            /\ NoRepeats(Enqueued(q))

\* the traversal just made stored at most max_out entries in the caller's
\* array
WritesAtMostMaxOut(op) ==
    (pc \in {"result", "crashed"} /\ call.op = op) =>
        /\ overrun = 0
        /\ pc # "crashed"
        /\ Len(out) <= call.b

\* C20: traversal buffers are never overrun: during bfs on any reachable
\* graph each vertex is pushed on the queue at most once, the queue's tail
\* never exceeds its capacity count + 5 and head never passes tail; and bfs
\* and dfs each write at most max_out entries into the caller's output array,
\* for every max_out >= 0.
C20_BuffersNeverOverrun ==
    /\ BfsQueueSafe
    /\ WritesAtMostMaxOut("bfs")
    /\ WritesAtMostMaxOut("dfs")

\* what holds of the code: the part of C20 about bfs
C20_BfsNeverOverruns == BfsQueueSafe /\ WritesAtMostMaxOut("bfs")

====
